---- MODULE Spec2Model ----
(***************************************************************************)
(* Fridge Feast AI: the view shell (App), its three panels (MealSuggester, *)
(* ChatBot, ImageGenerator) and the external-service adapter               *)
(* (analyzeImageForIngredients, getMealSuggestions, getChatResponse,       *)
(* generateImage), as a state machine.                                     *)
(*                                                                         *)
(* Texts are sequences of one-character strings, so that trimming and      *)
(* JSON parsing are computed rather than assumed.  A panel's React state   *)
(* exists only while the panel is mounted; the promise chain of a handler  *)
(* outlives the mount that started it, and its state setters then have no  *)
(* effect (field "live" of a chain).                                       *)
(***************************************************************************)
EXTENDS Integers, Sequences, FiniteSets, TLC

\* ------------------------------------------------------------------ bounds
\* Most promise chains (of all panels together) in flight at one time.
MaxInFlight == 2
\* Most chat round trips started in one mount of the chat panel.
MaxRoundTrips == 2
\* Longest response text enumerated for the direct calls of getMealSuggestions.
MaxTextLen == 3

VARIABLES
    view,            \* App: which panel is mounted
    chatRef,         \* App: chatRef.current, 0 for null, else the handle's number
    chats,           \* every handle ai.chats.create has made, in order
    selectedImage,   \* MealSuggester state
    imageFile,
    meals,
    ingredients,
    isLoading,
    sError,
    sChains,         \* handleAnalyze chains in flight, in order of start
    messages,        \* ChatBot state
    userInput,
    isThinking,
    cCalls,          \* getChatResponse calls in flight, in order of start
    prompt,          \* ImageGenerator state
    generatedImage,
    isGenerating,
    gError,
    gCalls,          \* generateImage calls in flight, in order of start
    lastEnded,       \* the handler invocation that ended in the step just taken
    gmsPc,           \* a direct call of getMealSuggestions: its position,
    gmsIngredients,  \*   its argument,
    gmsResponse,     \*   the response of the structured-output call,
    gmsRequests,     \*   the requests it has issued,
    gmsResult        \*   and the value it returned

appVars == <<view, chatRef, chats, selectedImage, imageFile, meals, ingredients,
             isLoading, sError, sChains, messages, userInput, isThinking, cCalls,
             prompt, generatedImage, isGenerating, gError, gCalls, lastEnded>>
gmsVars == <<gmsPc, gmsIngredients, gmsResponse, gmsRequests, gmsResult>>
vars == <<appVars, gmsVars>>

\* ------------------------------------------------------------------- texts
\* String.prototype.trim on a text whose only whitespace character is " ".
RECURSIVE TrimLeft(_)
TrimLeft(s) == IF s # <<>> /\ Head(s) = " " THEN TrimLeft(Tail(s)) ELSE s

RECURSIVE TrimRight(_)
TrimRight(s) ==
    IF s # <<>> /\ s[Len(s)] = " " THEN TrimRight(SubSeq(s, 1, Len(s) - 1)) ELSE s

Trim(s) == TrimRight(TrimLeft(s))

\* All texts over an alphabet, up to a length.
RECURSIVE TextsUpTo(_, _)
TextsUpTo(alphabet, n) ==
    IF n = 0 THEN {<<>>}
    ELSE LET shorter == TextsUpTo(alphabet, n - 1)
         IN  shorter \cup {Append(t, c) : t \in shorter, c \in alphabet}

\* A response of the external service: response.text is a string or undefined.
Defined(t) == [defined |-> TRUE, text |-> t]
Undefined == [defined |-> FALSE, text |-> <<>>]

\* -------------------------------------------------------------- JSON.parse
\* JSON.parse restricted to texts over JsonAlphabet: numbers written with the
\* digit 1, the empty object, arrays, and " " as the only whitespace.
JsonAlphabet == {"[", "]", ",", "1", " ", "{", "}"}

JNum(n) == [kind |-> "num", num |-> n, items |-> <<>>]
JObj == [kind |-> "obj", num |-> 0, items |-> <<>>]
JArr(items) == [kind |-> "arr", num |-> 0, items |-> items]

SyntaxError == [ok |-> FALSE, val |-> JObj, next |-> 0]
Parsed(v, n) == [ok |-> TRUE, val |-> v, next |-> n]

RECURSIVE SkipWs(_, _)
SkipWs(s, i) == IF i <= Len(s) /\ s[i] = " " THEN SkipWs(s, i + 1) ELSE i

RECURSIVE ParseNumber(_, _, _)
ParseNumber(s, i, acc) ==
    IF i <= Len(s) /\ s[i] = "1"
    THEN ParseNumber(s, i + 1, 10 * acc + 1)
    ELSE Parsed(JNum(acc), i)

RECURSIVE ParseValue(_, _)
RECURSIVE ParseElements(_, _, _)
ParseValue(s, i) ==
    IF i > Len(s) THEN SyntaxError
    ELSE IF s[i] = "1" THEN ParseNumber(s, i, 0)
    ELSE IF s[i] = "{" THEN
        LET j == SkipWs(s, i + 1)
        IN  IF j <= Len(s) /\ s[j] = "}" THEN Parsed(JObj, j + 1) ELSE SyntaxError
    ELSE IF s[i] = "[" THEN
        LET j == SkipWs(s, i + 1)
        IN  IF j <= Len(s) /\ s[j] = "]" THEN Parsed(JArr(<<>>), j + 1)
            ELSE ParseElements(s, j, <<>>)
    ELSE SyntaxError

\* The elements of an array after "[" or ",": a value, then "," or "]".
ParseElements(s, i, acc) ==
    LET r == ParseValue(s, i)
    IN  IF ~r.ok THEN SyntaxError
        ELSE LET j == SkipWs(s, r.next)
             IN  IF j > Len(s) THEN SyntaxError
                 ELSE IF s[j] = "]" THEN Parsed(JArr(Append(acc, r.val)), j + 1)
                 ELSE IF s[j] = ","
                      THEN ParseElements(s, SkipWs(s, j + 1), Append(acc, r.val))
                 ELSE SyntaxError

JSONParse(s) ==
    LET r == ParseValue(s, SkipWs(s, 1))
    IN  IF r.ok /\ SkipWs(s, r.next) > Len(s) THEN r ELSE SyntaxError

\* ------------------------------------------------------- getMealSuggestions
\* The guard of getMealSuggestions: !ingredients.trim().
IsBlank(s) == Trim(s) = <<>>

\* getMealSuggestions with the guard !ingredients in place of
\* !ingredients.trim().
getMealSuggestionsNoTrim(ingredientText) ==
    IF ingredientText = <<>>
    THEN [returned |-> TRUE, requests |-> 0, value |-> <<>>]
    ELSE [returned |-> FALSE, requests |-> 1, value |-> <<>>]

\* getMealSuggestions up to its await (lines 57-70): blank ingredients return
\* [] at once, anything else issues the structured-output call.
getMealSuggestions(ingredientText) ==
    IF IsBlank(ingredientText)
    THEN [returned |-> TRUE, requests |-> 0, value |-> <<>>]
    ELSE [returned |-> FALSE, requests |-> 1, value |-> <<>>]

\* The try block of getMealSuggestions (lines 72-76): reading .trim() of an
\* undefined text and JSON.parse of a malformed text throw; a parsed value
\* that is not an array is replaced by the empty list.
GetMealsTryBody(response) ==
    IF ~response.defined THEN [threw |-> TRUE, value |-> <<>>]
    ELSE LET r == JSONParse(Trim(response.text))
         IN  IF ~r.ok THEN [threw |-> TRUE, value |-> <<>>]
             ELSE IF r.val.kind = "arr" THEN [threw |-> FALSE, value |-> r.val.items]
             ELSE [threw |-> FALSE, value |-> <<>>]

\* getMealSuggestions without its catch clause: the failure reaches the caller.
ParseMealsNoCatch(response) == GetMealsTryBody(response)

\* The try/catch of getMealSuggestions applied to the response of the
\* structured-output call: what the function returns, and whether it throws.
ParseMeals(response) ==
    LET t == GetMealsTryBody(response)
    IN  IF t.threw THEN [threw |-> FALSE, value |-> <<>>] ELSE t

\* ---------------------------------------------------------------- the App
Views == {"suggester", "chat", "image"}
Files == {"f1", "f2"}
NoFile == "null"
NoUrl == <<>>
ObjectURL(f) == <<"blob:", f>>
NoError == "null"
NoImageMsg == "Please select an image first."
AnalyzeFailedMsg == "Failed to get meal suggestions. Please try again."
NoPromptMsg == "Please enter a prompt."
GenerateFailedMsg == "Failed to generate image. Please try again."
Greeting ==
    [role |-> "model",
     content |-> <<"Hello! I'm your culinary assistant. Ask me anything about recipes or cooking!">>]
Apology == <<"Sorry, I'm having trouble connecting. Please try again.">>

\* What the user and the external service can supply.
VisionReplies == {Undefined, Defined(<<>>), Defined(<<" ">>), Defined(<<"e">>),
                  Defined(<<" ", "e", " ">>)}
SuggestReplies == {Undefined, Defined(<<>>), Defined(<<"[", "]">>),
                   Defined(<<" ", "[", "1", "]", " ">>), Defined(<<"[", "{", "}", "]">>),
                   Defined(<<"{", "}">>), Defined(<<"[", "1">>), Defined(<<"1">>)}
ChatInputs == {<<>>, <<" ">>, <<"a", " ">>}
ChatReplies == {<<"r">>}
Prompts == {<<>>, <<" ">>, <<"p">>}
ImageReplies == {<<>>, <<"bytes">>}
DataUrl(bytes) == <<"data:image/jpeg;base64,", bytes>>

\* lastEnded when the step just taken ended no handler invocation.
NothingEnded == [panel |-> "none", live |-> FALSE, outcome |-> "none", requests |-> 0]

InFlight == Len(sChains) + Len(cCalls) + Len(gCalls)
RemoveAt(seq, i) == SubSeq(seq, 1, i - 1) \o SubSeq(seq, i + 1, Len(seq))
Last(seq) == seq[Len(seq)]
Unmounted(chains) == [i \in DOMAIN chains |-> [chains[i] EXCEPT !.live = FALSE]]

InitApp ==
    /\ view = "suggester"
    /\ chatRef = 0
    /\ chats = <<>>
    /\ selectedImage = NoUrl
    /\ imageFile = NoFile
    /\ meals = <<>>
    /\ ingredients = <<>>
    /\ isLoading = FALSE
    /\ sError = NoError
    /\ sChains = <<>>
    /\ messages = <<Greeting>>
    /\ userInput = <<>>
    /\ isThinking = FALSE
    /\ cCalls = <<>>
    /\ prompt = <<>>
    /\ generatedImage = NoUrl
    /\ isGenerating = FALSE
    /\ gError = NoError
    /\ gCalls = <<>>
    /\ lastEnded = NothingEnded

InitGmsIdle ==
    /\ gmsPc = "idle"
    /\ gmsIngredients = <<>>
    /\ gmsResponse = [status |-> "none", defined |-> FALSE, text |-> <<>>]
    /\ gmsRequests = 0
    /\ gmsResult = <<>>

Init == InitApp /\ InitGmsIdle

suggesterState == <<selectedImage, imageFile, meals, ingredients, isLoading, sError>>
chatState == <<messages, userInput, isThinking>>
imageState == <<prompt, generatedImage, isGenerating, gError>>

\* setView(v) with the ref declared inside ChatBot instead of App: the handle
\* is lost with the panel's state.
SetViewResetsHandle(v) ==
    /\ v # view
    /\ view' = v
    /\ selectedImage' = NoUrl /\ imageFile' = NoFile /\ meals' = <<>>
    /\ ingredients' = <<>> /\ isLoading' = FALSE /\ sError' = NoError
    /\ messages' = <<Greeting>> /\ userInput' = <<>> /\ isThinking' = FALSE
    /\ prompt' = <<>> /\ generatedImage' = NoUrl /\ isGenerating' = FALSE
    /\ gError' = NoError
    /\ sChains' = Unmounted(sChains)
    /\ cCalls' = Unmounted(cCalls)
    /\ gCalls' = Unmounted(gCalls)
    /\ lastEnded' = NothingEnded
    /\ chatRef' = 0
    /\ UNCHANGED <<chats, gmsVars>>

\* A click on a tab: setView(v).  The panel that was shown is unmounted, its
\* state is discarded and the setters of its chains in flight lose their
\* effect; the panel shown next starts from its useState initial values.
\* chatRef belongs to App and survives.
SetView(v) ==
    /\ v # view
    /\ view' = v
    /\ selectedImage' = NoUrl /\ imageFile' = NoFile /\ meals' = <<>>
    /\ ingredients' = <<>> /\ isLoading' = FALSE /\ sError' = NoError
    /\ messages' = <<Greeting>> /\ userInput' = <<>> /\ isThinking' = FALSE
    /\ prompt' = <<>> /\ generatedImage' = NoUrl /\ isGenerating' = FALSE
    /\ gError' = NoError
    /\ sChains' = Unmounted(sChains)
    /\ cCalls' = Unmounted(cCalls)
    /\ gCalls' = Unmounted(gCalls)
    /\ lastEnded' = NothingEnded
    /\ UNCHANGED <<chatRef, chats, gmsVars>>

\* ------------------------------------------------------------ MealSuggester
\* handleImageChange: the file input's onChange.  The input carries no
\* disabled attribute, so the handler runs whether or not isLoading is set.
handleImageChange(f) ==
    /\ view = "suggester"
    /\ IF f = NoFile
       THEN UNCHANGED suggesterState
       ELSE /\ imageFile' = f
            /\ selectedImage' = ObjectURL(f)
            /\ meals' = <<>>
            /\ ingredients' = <<>>
            /\ sError' = NoError
            /\ UNCHANGED isLoading
    /\ UNCHANGED <<view, chatRef, chats, sChains, chatState, cCalls, imageState,
                   gCalls, gmsVars>>
    /\ lastEnded' = NothingEnded

\* The synchronous part of handleAnalyze (lines 102-113), as the values it
\* leaves: with no file the error alone, otherwise the busy flag set, the
\* results cleared and a chain started on the file of this render.
handleAnalyze ==
    IF imageFile = NoFile
    THEN [error |-> NoImageMsg, isLoading |-> isLoading, meals |-> meals,
          ingredients |-> ingredients, chains |-> sChains]
    ELSE [error |-> NoError, isLoading |-> TRUE, meals |-> <<>>,
          ingredients |-> <<>>,
          chains |-> Append(sChains, [live |-> TRUE, file |-> imageFile,
                                      stage |-> "reading", text |-> <<>>,
                                      requests |-> 0])]

\* A click on the analyze button, which is rendered when selectedImage is
\* set and disabled while isLoading.
AnalyzeClick ==
    /\ view = "suggester"
    /\ selectedImage # NoUrl
    /\ ~isLoading
    /\ InFlight < MaxInFlight
    /\ LET r == handleAnalyze
       IN  /\ sError' = r.error
           /\ isLoading' = r.isLoading
           /\ meals' = r.meals
           /\ ingredients' = r.ingredients
           /\ sChains' = r.chains
    /\ UNCHANGED <<view, chatRef, chats, selectedImage, imageFile, chatState,
                   cCalls, imageState, gCalls, gmsVars>>
    /\ lastEnded' = NothingEnded

\* A handler invocation runs to its end.
Ended(panel, c, outcome, requests) ==
    lastEnded' = [panel |-> panel, live |-> c.live, outcome |-> outcome,
                  requests |-> requests]

\* handleAnalyze with setIsLoading(false) at the end of the try block instead
\* of in a finally clause: the catch clause leaves the busy flag set.
AnalyzeCatchKeepsBusy(c) ==
    /\ IF c.live
       THEN /\ sError' = AnalyzeFailedMsg
            /\ UNCHANGED <<selectedImage, imageFile, meals, ingredients, isLoading>>
       ELSE UNCHANGED suggesterState
    /\ Ended("suggester", c, "failed", c.requests)

\* The catch and finally clauses of handleAnalyze for chain c.
AnalyzeCatch(c) ==
    /\ IF c.live
       THEN /\ sError' = AnalyzeFailedMsg
            /\ isLoading' = FALSE
            /\ UNCHANGED <<selectedImage, imageFile, meals, ingredients>>
       ELSE UNCHANGED suggesterState
    /\ Ended("suggester", c, "failed", c.requests)

\* setMeals(suggestedMeals) and the finally clause for chain c.
AnalyzeDone(c, suggested) ==
    /\ IF c.live
       THEN /\ meals' = suggested
            /\ isLoading' = FALSE
            /\ UNCHANGED <<selectedImage, imageFile, sError>>
       ELSE UNCHANGED <<selectedImage, imageFile, meals, isLoading, sError>>
    /\ Ended("suggester", c, "done", c.requests)

sFrame == UNCHANGED <<view, chatRef, chats, chatState, cCalls, imageState, gCalls, gmsVars>>

\* fileToGenerativePart: the FileReader ends with a result; generateContent
\* of analyzeImageForIngredients is issued.
FileReadDone(i) ==
    /\ i \in DOMAIN sChains
    /\ sChains[i].stage = "reading"
    /\ sChains' = [sChains EXCEPT ![i].stage = "vision", ![i].requests = 1]
    /\ UNCHANGED suggesterState
    /\ lastEnded' = NothingEnded
    /\ sFrame

\* fileToGenerativePart: the FileReader ends with an error.  onloadend reads
\* .split of a null result and throws inside the event callback; the promise
\* has no reject path and never settles, so the chain never runs again.
FileReadError(i) ==
    /\ i \in DOMAIN sChains
    /\ sChains[i].stage = "reading"
    /\ sChains' = RemoveAt(sChains, i)
    /\ UNCHANGED suggesterState
    /\ lastEnded' = NothingEnded
    /\ sFrame

\* The vision call resolves with response.  An undefined text throws at
\* .trim(); otherwise the trimmed text is stored and handed to
\* getMealSuggestions, which returns [] at once for blank text and issues
\* the structured-output call otherwise.
VisionResolve(i, response) ==
    /\ i \in DOMAIN sChains
    /\ sChains[i].stage = "vision"
    /\ LET c == sChains[i]
           identified == Trim(response.text)
       IN  IF ~response.defined
           THEN AnalyzeCatch(c) /\ sChains' = RemoveAt(sChains, i)
           ELSE /\ ingredients' = IF c.live THEN identified ELSE ingredients
                /\ LET g == getMealSuggestions(identified)
                   IN  IF g.returned
                       THEN /\ AnalyzeDone(c, g.value)
                            /\ sChains' = RemoveAt(sChains, i)
                       ELSE /\ sChains' = [sChains EXCEPT
                                             ![i].stage = "suggest",
                                             ![i].text = identified,
                                             ![i].requests = c.requests + g.requests]
                            /\ UNCHANGED <<selectedImage, imageFile, meals,
                                           isLoading, sError>>
                            /\ lastEnded' = NothingEnded
    /\ sFrame

\* handleAnalyze with the vision call's failure swallowed: the chain goes on
\* to getMealSuggestions with no ingredients known.
VisionRejectContinues(i) ==
    /\ i \in DOMAIN sChains
    /\ sChains[i].stage = "vision"
    /\ sChains' = [sChains EXCEPT ![i].stage = "suggest", ![i].requests = 2]
    /\ UNCHANGED suggesterState
    /\ lastEnded' = NothingEnded
    /\ sFrame

\* The vision call rejects.
VisionReject(i) ==
    /\ i \in DOMAIN sChains
    /\ sChains[i].stage = "vision"
    /\ AnalyzeCatch(sChains[i])
    /\ sChains' = RemoveAt(sChains, i)
    /\ sFrame

\* The structured-output call resolves with response.
SuggestResolve(i, response) ==
    /\ i \in DOMAIN sChains
    /\ sChains[i].stage = "suggest"
    /\ LET r == ParseMeals(response)
       IN  IF r.threw
           THEN AnalyzeCatch(sChains[i])
           ELSE AnalyzeDone(sChains[i], r.value) /\ UNCHANGED ingredients
    /\ sChains' = RemoveAt(sChains, i)
    /\ sFrame

\* The structured-output call rejects: getMealSuggestions throws.
SuggestReject(i) ==
    /\ i \in DOMAIN sChains
    /\ sChains[i].stage = "suggest"
    /\ AnalyzeCatch(sChains[i])
    /\ sChains' = RemoveAt(sChains, i)
    /\ sFrame

\* ------------------------------------------------------------------ ChatBot
cFrame == UNCHANGED <<view, suggesterState, sChains, imageState, gCalls, gmsVars>>

\* The text input's onChange; the input is disabled while isThinking.
TypeInput(t) ==
    /\ view = "chat"
    /\ ~isThinking
    /\ t # userInput
    /\ userInput' = t
    /\ UNCHANGED <<messages, isThinking, cCalls, chatRef, chats>>
    /\ lastEnded' = NothingEnded
    /\ cFrame

\* The guard of handleSendMessage without its test of the input.
SendAcceptedIgnoringBlank == ~isThinking

\* The guard of handleSendMessage (line 214).
SendAccepted == ~(IsBlank(userInput) \/ isThinking)

\* history.map(...) with no slice: the newest turn is seeded too.
FormattedHistoryWithLast(history) ==
    [k \in 1..Len(history) |->
        [role |-> history[k].role, parts |-> <<[text |-> history[k].content]>>]]

\* history.slice(0, -1).map(...) of getChatResponse.
FormattedHistory(history) ==
    [k \in 1..(Len(history) - 1) |->
        [role |-> history[k].role, parts |-> <<[text |-> history[k].content]>>]]

\* getChatResponse with no test of chatRef.current: a handle per call.
getChatResponseAlwaysCreates(ref, made, history) ==
    LET made2 == Append(made, [history |-> FormattedHistory(history)])
        ref2 == Len(made2)
    IN  [chatRef |-> ref2,
         chats |-> made2,
         call |-> [live |-> TRUE, handle |-> ref2, history |-> history,
                   message |-> Last(history).content]]

\* getChatResponse up to its await (lines 84-100): the handle in chatRef
\* after the call, the handles made so far, and the sendMessage it issues.
getChatResponse(ref, made, history) ==
    LET create == ref = 0
        made2 == IF create
                 THEN Append(made, [history |-> FormattedHistory(history)])
                 ELSE made
        ref2 == IF create THEN Len(made2) ELSE ref
    IN  [chatRef |-> ref2,
         chats |-> made2,
         call |-> [live |-> TRUE, handle |-> ref2, history |-> history,
                   message |-> Last(history).content]]

\* The form's onSubmit: handleSendMessage up to its await.
handleSendMessage ==
    /\ view = "chat"
    /\ IF ~SendAccepted
       THEN UNCHANGED <<messages, userInput, isThinking, cCalls, chatRef, chats>>
       ELSE /\ Len(messages) < 1 + 2 * MaxRoundTrips
            /\ InFlight < MaxInFlight
            /\ LET newMessages == Append(messages, [role |-> "user", content |-> userInput])
                   r == getChatResponse(chatRef, chats, newMessages)
               IN  /\ messages' = newMessages
                   /\ userInput' = <<>>
                   /\ isThinking' = TRUE
                   /\ chatRef' = r.chatRef
                   /\ chats' = r.chats
                   /\ cCalls' = Append(cCalls, r.call)
    /\ lastEnded' = NothingEnded
    /\ cFrame

\* The end of handleSendMessage for call c: one model turn with content, and
\* the finally clause.
SendSettled(c, content) ==
    IF c.live
    THEN /\ messages' = Append(messages, [role |-> "model", content |-> content])
         /\ isThinking' = FALSE
         /\ UNCHANGED userInput
    ELSE UNCHANGED chatState

\* sendMessage resolves with result.text = reply.
ChatResolve(i, reply) ==
    /\ i \in DOMAIN cCalls
    /\ SendSettled(cCalls[i], reply)
    /\ Ended("chat", cCalls[i], "done", 1)
    /\ cCalls' = RemoveAt(cCalls, i)
    /\ UNCHANGED <<chatRef, chats>>
    /\ cFrame

\* sendMessage rejects.
ChatReject(i) ==
    /\ i \in DOMAIN cCalls
    /\ SendSettled(cCalls[i], Apology)
    /\ Ended("chat", cCalls[i], "failed", 1)
    /\ cCalls' = RemoveAt(cCalls, i)
    /\ UNCHANGED <<chatRef, chats>>
    /\ cFrame

\* ----------------------------------------------------------- ImageGenerator
gFrame == UNCHANGED <<view, chatRef, chats, suggesterState, sChains, chatState, cCalls, gmsVars>>

\* The textarea's onChange; the textarea is disabled while isGenerating.
TypePrompt(p) ==
    /\ view = "image"
    /\ ~isGenerating
    /\ p # prompt
    /\ prompt' = p
    /\ UNCHANGED <<generatedImage, isGenerating, gError, gCalls>>
    /\ lastEnded' = NothingEnded
    /\ gFrame

\* A click on the generate button, disabled while isGenerating:
\* handleGenerate up to its await.
handleGenerate ==
    /\ view = "image"
    /\ ~isGenerating
    /\ IF IsBlank(prompt)
       THEN /\ gError' = NoPromptMsg
            /\ UNCHANGED <<prompt, generatedImage, isGenerating, gCalls>>
       ELSE /\ InFlight < MaxInFlight
            /\ isGenerating' = TRUE
            /\ gError' = NoError
            /\ generatedImage' = NoUrl
            /\ gCalls' = Append(gCalls, [live |-> TRUE, prompt |-> prompt])
            /\ UNCHANGED prompt
    /\ lastEnded' = NothingEnded
    /\ gFrame

\* The catch and finally clauses of handleGenerate for call c.
GenerateCatch(c) ==
    /\ IF c.live
       THEN /\ gError' = GenerateFailedMsg
            /\ isGenerating' = FALSE
            /\ UNCHANGED <<prompt, generatedImage>>
       ELSE UNCHANGED imageState
    /\ Ended("image", c, "failed", 1)

\* generateImages resolves with the list images of generated images; with
\* none, reading generatedImages[0].image throws inside generateImage.
ImageResolve(i, images) ==
    /\ i \in DOMAIN gCalls
    /\ IF images = <<>>
       THEN GenerateCatch(gCalls[i])
       ELSE /\ IF gCalls[i].live
               THEN /\ generatedImage' = DataUrl(images[1])
                    /\ isGenerating' = FALSE
                    /\ UNCHANGED <<prompt, gError>>
               ELSE UNCHANGED imageState
            /\ Ended("image", gCalls[i], "done", 1)
    /\ gCalls' = RemoveAt(gCalls, i)
    /\ gFrame

\* generateImages rejects.
ImageReject(i) ==
    /\ i \in DOMAIN gCalls
    /\ GenerateCatch(gCalls[i])
    /\ gCalls' = RemoveAt(gCalls, i)
    /\ gFrame

\* --------------------------------------------------------- the application
Next ==
    \/ \E v \in Views : SetView(v)
    \/ \E f \in Files \cup {NoFile} : handleImageChange(f)
    \/ AnalyzeClick
    \/ \E i \in 1..MaxInFlight : FileReadDone(i)
    \/ \E i \in 1..MaxInFlight : FileReadError(i)
    \/ \E i \in 1..MaxInFlight, response \in VisionReplies : VisionResolve(i, response)
    \/ \E i \in 1..MaxInFlight : VisionReject(i)
    \/ \E i \in 1..MaxInFlight, response \in SuggestReplies : SuggestResolve(i, response)
    \/ \E i \in 1..MaxInFlight : SuggestReject(i)
    \/ \E t \in ChatInputs : TypeInput(t)
    \/ handleSendMessage
    \/ \E i \in 1..MaxInFlight, reply \in ChatReplies : ChatResolve(i, reply)
    \/ \E i \in 1..MaxInFlight : ChatReject(i)
    \/ \E p \in Prompts : TypePrompt(p)
    \/ handleGenerate
    \/ \E i \in 1..MaxInFlight, images \in ImageReplies : ImageResolve(i, images)
    \/ \E i \in 1..MaxInFlight : ImageReject(i)

Spec == Init /\ [][Next]_vars

\* Every file read ends and every request is answered.
Settles ==
    /\ \A i \in 1..MaxInFlight : WF_vars(FileReadDone(i) \/ FileReadError(i))
    /\ \A i \in 1..MaxInFlight :
          WF_vars(VisionReject(i) \/ \E response \in VisionReplies : VisionResolve(i, response))
    /\ \A i \in 1..MaxInFlight :
          WF_vars(SuggestReject(i) \/ \E response \in SuggestReplies : SuggestResolve(i, response))
    /\ \A i \in 1..MaxInFlight :
          WF_vars(ChatReject(i) \/ \E reply \in ChatReplies : ChatResolve(i, reply))
    /\ \A i \in 1..MaxInFlight :
          WF_vars(ImageReject(i) \/ \E images \in ImageReplies : ImageResolve(i, images))

FairSpec == Spec /\ Settles

\* ------------------------------------------- getMealSuggestions on its own
IngredientTexts == TextsUpTo({" ", "e"}, 2)
GmsReplies == {Undefined} \cup {Defined(t) : t \in TextsUpTo(JsonAlphabet, MaxTextLen)}

InitGMS ==
    /\ InitApp
    /\ gmsPc = "idle"
    /\ gmsIngredients \in IngredientTexts
    /\ gmsResponse = [status |-> "none", defined |-> FALSE, text |-> <<>>]
    /\ gmsRequests = 0
    /\ gmsResult = <<>>

\* getMealSuggestions up to its await (lines 57-70).
GmsCall ==
    /\ gmsPc = "idle"
    /\ LET g == getMealSuggestions(gmsIngredients)
       IN  /\ gmsPc' = IF g.returned THEN "returned" ELSE "awaiting"
           /\ gmsRequests' = g.requests
           /\ gmsResult' = g.value
    /\ UNCHANGED <<gmsIngredients, gmsResponse, appVars>>

\* The structured-output call resolves (lines 72-80).
GmsResolve(response) ==
    /\ gmsPc = "awaiting"
    /\ gmsResponse' = [status |-> "resolved", defined |-> response.defined,
                       text |-> response.text]
    /\ LET r == ParseMeals(response)
       IN  /\ gmsPc' = IF r.threw THEN "threw" ELSE "returned"
           /\ gmsResult' = r.value
    /\ UNCHANGED <<gmsIngredients, gmsRequests, appVars>>

\* The structured-output call rejects: the await is outside the try block.
GmsReject ==
    /\ gmsPc = "awaiting"
    /\ gmsResponse' = [status |-> "rejected", defined |-> FALSE, text |-> <<>>]
    /\ gmsPc' = "threw"
    /\ UNCHANGED <<gmsIngredients, gmsRequests, gmsResult, appVars>>

NextGMS ==
    \/ GmsCall
    \/ \E response \in GmsReplies : GmsResolve(response)
    \/ GmsReject

SpecGMS == InitGMS /\ [][NextGMS]_vars

\* ================================================================== claims
WhitespaceOnly(t) == \A k \in DOMAIN t : t[k] = " "

\* C1: getMealSuggestions called with non-blank ingredient text never throws
\* once the structured-output call has resolved: it returns the parsed value
\* when the response text parses as JSON to a list, and the empty list when
\* the text is missing, fails to parse, or parses to anything else.
C1_MalformedOrNonListYieldsEmpty ==
    gmsResponse.status = "resolved" =>
        /\ ~WhitespaceOnly(gmsIngredients)
        /\ gmsPc = "returned"
        /\ LET p == JSONParse(gmsResponse.text)
               isList == gmsResponse.defined /\ p.ok /\ p.val.kind = "arr"
           IN  gmsResult = IF isList THEN p.val.items ELSE <<>>
        /\ gmsResponse.text = <<"[", "1", "]">> => gmsResult = <<JNum(1)>>
        /\ gmsResponse.text = <<"[", "1", ",">> => gmsResult = <<>>
        /\ gmsResponse.text = <<"{", "}">> => gmsResult = <<>>
        /\ gmsResponse.text = <<"1", "1">> => gmsResult = <<>>

\* The structured-output call answered malformed JSON and the function
\* returned the empty list.
C1_Witness ==
    /\ gmsPc = "returned"
    /\ gmsResponse.status = "resolved"
    /\ gmsResponse.defined
    /\ gmsResponse.text = <<"[", "1", ",">>
    /\ gmsResult = <<>>

\* C2: for every empty or whitespace-only ingredient text getMealSuggestions
\* returns the empty list without issuing a request; and when the vision call
\* resolves with empty (or whitespace-only) text, the chain ends in that step
\* having issued exactly one request, and the panel that started it is left
\* with no meals, no error message and the busy flag cleared.
C2_BlankIngredientsIssueNoRequest ==
    /\ [](\A t \in IngredientTexts :
            WhitespaceOnly(t) =>
                getMealSuggestions(t) = [returned |-> TRUE, requests |-> 0, value |-> <<>>])
    /\ [][\A i \in 1..MaxInFlight : \A response \in VisionReplies :
            (response.defined /\ WhitespaceOnly(response.text) /\ VisionResolve(i, response))
            => /\ sChains[i].requests = 1
               /\ sChains' = RemoveAt(sChains, i)
               /\ sChains[i].live =>
                    (meals' = <<>> /\ sError' = NoError /\ ~isLoading' /\ ingredients' = <<>>)]_vars

\* A chain whose vision call has just resolved with empty text: the panel is
\* idle again with an image selected and nothing to show.
C2_Witness ==
    /\ view = "suggester"
    /\ selectedImage # NoUrl
    /\ ~isLoading
    /\ sChains = <<>>
    /\ meals = <<>>
    /\ ingredients = <<>>
    /\ sError = NoError
    /\ lastEnded = [panel |-> "suggester", live |-> TRUE, outcome |-> "done", requests |-> 1]

\* C3: once chatRef holds a handle it is never replaced or reset, at most one
\* handle is ever created, and every sendMessage in flight (started in this
\* mount or an earlier one, before or after a failed send) is on that handle.
C3_OneHandleForTheTab ==
    /\ [][chatRef # 0 => (chatRef' = chatRef /\ chats' = chats)]_vars
    /\ [](Len(chats) <= 1 /\ chatRef = Len(chats))
    /\ [](\A i \in DOMAIN cCalls : chatRef # 0 /\ cCalls[i].handle = chatRef)

\* A send after a failed send, in a second mount of the chat panel, while a
\* call of the first mount is still in flight: both on the one handle.
C3_Witness ==
    /\ Len(cCalls) = 2
    /\ ~cCalls[1].live
    /\ cCalls[2].live
    /\ Len(messages) = 4
    /\ messages[3].content = Apology
    /\ chatRef = 1
    /\ cCalls[1].handle = 1
    /\ cCalls[2].handle = 1

\* C4: no handle exists before the first chat round trip; the step that
\* creates it is a send, and seeds it with the turns of the list passed to
\* getChatResponse except the last, in order and with their roles; every
\* sendMessage carries the content of the last turn of that list, which is
\* the user turn just appended.
C4_SeededWithAllButLastSendsLast ==
    /\ [][chats' # chats =>
            /\ chatRef = 0
            /\ Len(cCalls') = Len(cCalls) + 1
            /\ LET call == cCalls'[Len(cCalls')]
                   seed == chats'[chatRef'].history
               IN  /\ call.handle = chatRef'
                   /\ Len(seed) = Len(call.history) - 1
                   /\ \A k \in 1..Len(seed) :
                        /\ seed[k].role = call.history[k].role
                        /\ seed[k].parts = <<[text |-> call.history[k].content]>>]_vars
    /\ [](\A i \in DOMAIN cCalls :
            LET h == cCalls[i].history
            IN  /\ h[Len(h)].role = "user"
                /\ cCalls[i].message = h[Len(h)].content
                /\ ~WhitespaceOnly(cCalls[i].message))
    /\ [][Len(cCalls') > Len(cCalls) =>
            LET call == cCalls'[Len(cCalls')]
            IN  /\ call.history = messages'
                /\ call.message = userInput]_vars

\* The second round trip of a mount: the handle keeps the seed of the first,
\* and only the newest user turn is sent.
C4_Witness ==
    /\ chatRef = 1
    /\ Len(cCalls) = 1
    /\ Len(cCalls[1].history) = 4
    /\ cCalls[1].message = <<"a", " ">>
    /\ chats[1].history = <<[role |-> "model", parts |-> <<[text |-> Greeting.content]>>]>>

\* C5 (as claimed): in every reachable state each panel has at most one
\* external call pending, and at most one sendMessage is in flight on the
\* conversation handle.
C5_OneCallChainPerPanel ==
    /\ Cardinality({i \in DOMAIN sChains : sChains[i].stage # "reading"}) <= 1
    /\ Len(cCalls) <= 1
    /\ \A i, j \in DOMAIN cCalls : (cCalls[i].handle = cCalls[j].handle) => i = j
    /\ Len(gCalls) <= 1

\* C6 (as claimed): while a panel's busy flag is set and the panel stays
\* mounted, a step that is not a step of a call chain leaves the panel's
\* state as it is.
C6_BusyPanelAcceptsNoInput ==
    [][view' = view =>
        /\ (isLoading /\ sChains' = sChains) => UNCHANGED suggesterState
        /\ (isThinking /\ cCalls' = cCalls) => UNCHANGED chatState
        /\ (isGenerating /\ gCalls' = gCalls) => UNCHANGED imageState]_vars

\* The steps in which an external call of a handler fails.
SuggesterFails(i) == VisionReject(i) \/ VisionResolve(i, Undefined) \/ SuggestReject(i)
ChatFails(i) == ChatReject(i)
ImageFails(i) == ImageReject(i) \/ ImageResolve(i, <<>>)

LiveCount(calls) == Cardinality({i \in DOMAIN calls : calls[i].live})

\* C8: while the chat panel stays mounted, a step either leaves the message
\* list alone and starts no request, or is an accepted send (input not blank,
\* not thinking) appending the user turn and issuing one request, or is the
\* settling of the round trip in flight appending one model turn right after
\* that user turn; a submit with blank input or while thinking changes nothing.
C8_MessagesAppendOnly ==
    /\ [][(view = "chat" /\ view' = "chat") =>
            \/ /\ messages' = messages
               /\ LiveCount(cCalls') = LiveCount(cCalls)
               /\ Len(cCalls') <= Len(cCalls)
            \/ /\ ~isThinking /\ ~WhitespaceOnly(userInput)
               /\ messages' = Append(messages, [role |-> "user", content |-> userInput])
               /\ isThinking'
               /\ Len(cCalls') = Len(cCalls) + 1
            \/ /\ isThinking /\ ~isThinking'
               /\ Len(cCalls') = Len(cCalls) - 1
               /\ LiveCount(cCalls') = 0
               /\ messages[Len(messages)].role = "user"
               /\ \E content \in ChatReplies \cup {Apology} :
                     messages' = Append(messages, [role |-> "model", content |-> content])]_vars
    /\ [](LiveCount(cCalls) = IF isThinking THEN 1 ELSE 0)
    /\ [](\A i \in DOMAIN cCalls : cCalls[i].live => cCalls[i].history = messages)
    /\ [][(handleSendMessage /\ (isThinking \/ WhitespaceOnly(userInput))) =>
            UNCHANGED <<chatState, cCalls, chatRef, chats>>]_vars

\* Two round trips of one mount, the first failed and the second answered.
C8_Witness ==
    /\ view = "chat"
    /\ ~isThinking
    /\ Len(messages) = 5
    /\ messages[2] = [role |-> "user", content |-> <<"a", " ">>]
    /\ messages[3] = [role |-> "model", content |-> Apology]
    /\ messages[4] = [role |-> "user", content |-> <<"a", " ">>]
    /\ messages[5] = [role |-> "model", content |-> <<"r">>]

SuggestCount(chains) == Cardinality({i \in DOMAIN chains : chains[i].stage = "suggest"})

\* C9: a chain has issued no request while its file is read, one while the
\* vision call is pending and two while the suggestion call is pending; a
\* suggestion call is issued only in the step in which the chain's vision
\* call resolves, on the trimmed text of that response; a failed vision call
\* ends the chain; the meal list becomes non-empty only when the suggestion
\* call of a chain of this mount resolves; and with no file selected
\* handleAnalyze starts no chain and sets only the error message.
C9_VisionThenSuggestion ==
    /\ [](\A i \in DOMAIN sChains :
            LET c == sChains[i]
            IN  /\ c.stage = "reading" => c.requests = 0
                /\ c.stage = "vision" => c.requests = 1
                /\ c.stage = "suggest" => (c.requests = 2 /\ ~WhitespaceOnly(c.text)))
    /\ [][SuggestCount(sChains') > SuggestCount(sChains) =>
            \E i \in DOMAIN sChains : \E response \in VisionReplies :
                /\ response.defined
                /\ sChains[i].stage = "vision"
                /\ VisionResolve(i, response)
                /\ sChains'[i].stage = "suggest"
                /\ sChains'[i].text = Trim(response.text)
                /\ sChains[i].live => ingredients' = sChains'[i].text]_vars
    /\ [][\A i \in 1..MaxInFlight :
            (VisionReject(i) \/ VisionResolve(i, Undefined)) =>
                sChains' = RemoveAt(sChains, i)]_vars
    /\ [][(meals' # <<>> /\ meals' # meals) =>
            \E i \in DOMAIN sChains : \E response \in SuggestReplies :
                /\ SuggestResolve(i, response)
                /\ sChains[i].live
                /\ sChains[i].stage = "suggest"
                /\ sChains[i].requests = 2]_vars
    /\ [](imageFile = NoFile =>
            handleAnalyze = [error |-> NoImageMsg, isLoading |-> isLoading, meals |-> meals,
                             ingredients |-> ingredients, chains |-> sChains])

\* Both calls of a chain of the mounted suggester have succeeded.
C9_Witness ==
    /\ lastEnded = [panel |-> "suggester", live |-> TRUE, outcome |-> "done", requests |-> 2]
    /\ meals = <<JNum(1)>>
    /\ ingredients = <<"e">>
    /\ ~isLoading
    /\ sError = NoError

\* C10 (as claimed): with every file read ending and every external call
\* answered, a busy flag that is set is eventually false again.
C10_BusyFlagEventuallyClears ==
    /\ isLoading ~> ~isLoading
    /\ isThinking ~> ~isThinking
    /\ isGenerating ~> ~isGenerating

\* C11: while another view is shown the chat panel has no state, and the
\* step that shows the chat view again leaves it with its initial state (the
\* greeting alone, empty input, not thinking); switching away and switching
\* back both leave chatRef and the handle as they are; and once a handle
\* exists a send neither replaces it nor changes the history it was seeded
\* with, whatever list is displayed.
C11_RemountResetsListKeepsHandle ==
    /\ [](view # "chat" =>
            (messages = <<Greeting>> /\ userInput = <<>> /\ ~isThinking))
    /\ [][(view # "chat" /\ view' = "chat") =>
            /\ messages' = <<Greeting>>
            /\ userInput' = <<>>
            /\ ~isThinking'
            /\ chatRef' = chatRef
            /\ chats' = chats]_vars
    /\ [][(view = "chat" /\ view' # "chat") =>
            (chatRef' = chatRef /\ chats' = chats)]_vars
    /\ [][(chatRef # 0 /\ Len(cCalls') > Len(cCalls)) =>
            /\ chatRef' = chatRef
            /\ chats' = chats
            /\ cCalls'[Len(cCalls')].handle = chatRef]_vars

\* The chat view is shown again after a send and a switch away: the handle has
\* been sent two user turns (one of the earlier mount, still in flight, and
\* one of this mount), the displayed list holds the greeting and one user
\* turn, and the handle still has the seed of its creation.
C11_Witness ==
    /\ view = "chat"
    /\ chatRef = 1
    /\ Len(cCalls) = 2
    /\ ~cCalls[1].live /\ cCalls[1].handle = 1
    /\ cCalls[2].live /\ cCalls[2].handle = 1
    /\ messages = <<Greeting, [role |-> "user", content |-> <<"a", " ">>]>>
    /\ chats[1].history = <<[role |-> "model", parts |-> <<[text |-> Greeting.content]>>]>>

====
